---- MODULE Spec2Model ----
(***************************************************************************)
(* CrudController (src/crud-controller.ts): permission-scoped list/count,  *)
(* create, update, delete over a repository of content entities.           *)
(*                                                                         *)
(* JavaScript values are tagged records, so that truthiness, parseInt,     *)
(* Number() and the store's comparison of a column with a bound parameter  *)
(* are computed as the runtime computes them. Strings are sequences of     *)
(* one-character strings. Objects (the query, an entity, the extraWhere    *)
(* object, the parameter map of a query builder) are functions from key    *)
(* to value.                                                               *)
(***************************************************************************)
EXTENDS Integers, Sequences, FiniteSets, TLC

VARIABLES store, nextId, ownerFields, req, resp

vars == <<store, nextId, ownerFields, req, resp>>

-----------------------------------------------------------------------------
\* Bounds of the model.

MaxUser == 2
MaxId == 1
MaxStrLen == 3

\* Program constants.
maxLimit == 100
defaultLimit == 25

-----------------------------------------------------------------------------
\* JavaScript values.

Undefined == [undef |-> TRUE]
Null == [null |-> TRUE]
NaN == [nan |-> TRUE]
Num(n) == [num |-> n]
Str(s) == [str |-> s]
Bool(b) == [bool |-> b]
Arr(a) == [arr |-> a]
Obj(o) == [obj |-> o]

IsUndefined(v) == DOMAIN v = {"undef"}
IsNull(v) == DOMAIN v = {"null"}
IsNaN(v) == DOMAIN v = {"nan"}
IsNum(v) == DOMAIN v = {"num"}
IsStr(v) == DOMAIN v = {"str"}
IsBool(v) == DOMAIN v = {"bool"}
IsArray(v) == DOMAIN v = {"arr"}
IsObj(v) == DOMAIN v = {"obj"}

\* ToBoolean: what `if (v)`, `v || w` and `v && w` test.
Truthy(v) ==
    CASE IsNum(v) -> v.num # 0
      [] IsStr(v) -> v.str # <<>>
      [] IsBool(v) -> v.bool
      [] IsArray(v) -> TRUE
      [] IsObj(v) -> TRUE
      [] OTHER -> FALSE

\* v || w
OrElse(v, w) == IF Truthy(v) THEN v ELSE w

\* o[k] of an object given as a function; a missing key reads undefined.
Get(o, k) == IF k \in DOMAIN o THEN o[k] ELSE Undefined

\* o[k] = v
Put(o, k, v) == [x \in DOMAIN o \cup {k} |-> IF x = k THEN v ELSE o[x]]

\* delete o[k] for every k of ks
Delete(o, ks) == [x \in DOMAIN o \ ks |-> o[x]]

\* Object.assign(target, source): the source's keys win.
Assign(target, source) == source @@ target

EmptyObject == [x \in {} |-> Undefined]

Digits == {"0", "1", "2", "3", "4", "5", "6", "7", "8", "9"}

DigitValue(c) ==
    CASE c = "0" -> 0 [] c = "1" -> 1 [] c = "2" -> 2 [] c = "3" -> 3
      [] c = "4" -> 4 [] c = "5" -> 5 [] c = "6" -> 6 [] c = "7" -> 7
      [] c = "8" -> 8 [] c = "9" -> 9

\* The length of the longest prefix of s made of decimal digits.
RECURSIVE DigitPrefixLen(_)
DigitPrefixLen(s) ==
    IF s = <<>> \/ Head(s) \notin Digits THEN 0 ELSE 1 + DigitPrefixLen(Tail(s))

\* The number a string of decimal digits denotes (0 for the empty string).
RECURSIVE DecimalValue(_)
DecimalValue(s) ==
    IF s = <<>> THEN 0
    ELSE 10 * DecimalValue(SubSeq(s, 1, Len(s) - 1)) + DigitValue(s[Len(s)])

\* parseInt(v, 10): an optional sign, then the longest run of digits; NaN
\* when there is no digit. A number is converted to its decimal string first,
\* which gives the number back for the integers of the model.
parseInt(v) ==
    IF IsNum(v) THEN v
    ELSE IF ~IsStr(v) THEN NaN
    ELSE LET s == v.str
             neg == s # <<>> /\ Head(s) = "-"
             signed == s # <<>> /\ Head(s) \in {"-", "+"}
             body == IF signed THEN Tail(s) ELSE s
             n == DigitPrefixLen(body)
         IN IF n = 0 THEN NaN
            ELSE LET m == DecimalValue(SubSeq(body, 1, n))
                 IN Num(IF neg THEN 0 - m ELSE m)

\* Number(v), the conversion `*` applies to its operands and the query
\* builder's take/skip apply to a non-number argument: the whole string must
\* be a numeral, the empty string is 0.
ToNumber(v) ==
    CASE IsNum(v) -> v
      [] IsNull(v) -> Num(0)
      [] IsBool(v) -> Num(IF v.bool THEN 1 ELSE 0)
      [] IsStr(v) ->
           IF DigitPrefixLen(v.str) = Len(v.str) THEN Num(DecimalValue(v.str)) ELSE NaN
      [] OTHER -> NaN

\* a * b
Times(a, b) ==
    LET x == ToNumber(a)
        y == ToNumber(b)
    IN IF IsNum(x) /\ IsNum(y) THEN Num(x.num * y.num) ELSE NaN

\* a > n, false when a is NaN
GreaterThan(a, n) == IsNum(a) /\ a.num > n

UpperChar(c) ==
    CASE c = "a" -> "A" [] c = "s" -> "S" [] c = "c" -> "C"
      [] c = "d" -> "D" [] c = "e" -> "E" [] OTHER -> c

\* s.toUpperCase()
toUpperCase(v) == Str([i \in 1..Len(v.str) |-> UpperChar(v.str[i])])

-----------------------------------------------------------------------------
\* Entities and the store's comparison of a column with a bound parameter.

Columns == {"id", "authorId", "moderatorId", "isPublished", "title"}

\* The spelling of each column name, to match a string value against it.
ColumnChars ==
    [id |-> <<"i", "d">>,
     authorId |-> <<"a", "u", "t", "h", "o", "r", "I", "d">>,
     moderatorId |-> <<"m", "o", "d", "e", "r", "a", "t", "o", "r", "I", "d">>,
     isPublished |-> <<"i", "s", "P", "u", "b", "l", "i", "s", "h", "e", "d">>,
     title |-> <<"t", "i", "t", "l", "e">>]

\* The number the store compares in place of a value: a boolean column is
\* 0/1, a string is converted by its leading digits (0 when it has none).
DbNumber(v) ==
    CASE IsNum(v) -> v.num
      [] IsBool(v) -> IF v.bool THEN 1 ELSE 0
      [] IsStr(v) -> DecimalValue(SubSeq(v.str, 1, DigitPrefixLen(v.str)))
      [] OTHER -> 0

\* `column = :param` as the store decides it: never true for NULL, string
\* against string by content, otherwise numerically.
ColEq(col, p) ==
    IF IsNull(col) \/ IsNull(p) \/ IsUndefined(p) \/ IsNaN(p) THEN FALSE
    ELSE IF IsStr(col) /\ IsStr(p) THEN col.str = p.str
    ELSE DbNumber(col) = DbNumber(p)

\* A where condition `entity.<field> <op> :<field>`; the parameter carries
\* the field's name.
Leaf(field, op) == [field |-> field, op |-> op]

\* new Brackets(...): a parenthesised group of where clauses.
Brackets(w) == [brackets |-> w]

LeafHolds(c, e, parameters) ==
    LET col == Get(e, c.field)
        p == Get(parameters, c.field)
    IN IF c.op = "IN"
       THEN IsArray(p) /\ \E i \in 1..Len(p.arr) : ColEq(col, p.arr[i])
       ELSE ColEq(col, p)

\* The last clause of the AND-group that starts at clause i.
RECURSIVE GroupEnd(_, _)
GroupEnd(w, i) ==
    IF i < Len(w) /\ w[i + 1].type = "and" THEN GroupEnd(w, i + 1) ELSE i

\* Whether entity e satisfies the clauses w under the parameter map: clauses
\* are joined in order by their types, AND binding tighter than OR; no
\* clause at all is no restriction.
RECURSIVE WheresHold(_, _, _)
WheresHold(w, e, parameters) ==
    IF Len(w) = 0 THEN TRUE
    ELSE \E i \in 1..Len(w) :
            /\ i = 1 \/ w[i].type = "or"
            /\ \A j \in i..GroupEnd(w, i) :
                  IF "brackets" \in DOMAIN w[j].cond
                  THEN WheresHold(w[j].cond.brackets, e, parameters)
                  ELSE LeafHolds(w[j].cond, e, parameters)

-----------------------------------------------------------------------------
\* getWhereRestrictionsByPermissions and getQueryBuilder.

Range(s) == {s[i] : i \in 1..Len(s)}

\* where[field] = user.id for every owner field
OwnerWhere(user, fields) == [f \in Range(fields) |-> user.id]

getWhereRestrictionsByPermissions_grantOnUnpublished(user, permissions, fields) ==
    IF permissions.viewAll \/ permissions.viewOwn \/ permissions.viewUnpublished
    THEN Obj(IF permissions.viewAll
             THEN IF ~permissions.viewUnpublished
                  THEN Assign([isPublished |-> Bool(TRUE)],
                              IF permissions.viewOwn THEN OwnerWhere(user, fields)
                              ELSE EmptyObject)
                  ELSE EmptyObject
             ELSE OwnerWhere(user, fields))
    ELSE Bool(FALSE)

\* The where object of the user's permissions, or false when the user is
\* granted neither viewAll nor viewOwn. `permissions` are the answers of
\* checkPermissionGranted for the three view keys.
getWhereRestrictionsByPermissions(user, permissions, fields) ==
    IF permissions.viewAll \/ permissions.viewOwn
    THEN Obj(IF permissions.viewAll
             THEN IF ~permissions.viewUnpublished
                  THEN Assign([isPublished |-> Bool(TRUE)],
                              IF permissions.viewOwn THEN OwnerWhere(user, fields)
                              ELSE EmptyObject)
                  ELSE EmptyObject
             ELSE OwnerWhere(user, fields))
    ELSE Bool(FALSE)

\* extraWhere[field]; indexing false reads undefined.
Index(v, k) == IF IsObj(v) THEN Get(v.obj, k) ELSE Undefined

\* ownerFields.reduce((res, field) => res && typeof extraWhere[field] !== 'undefined', true)
hasOwnerFields(extraWhere, fields) ==
    \A i \in 1..Len(fields) : ~IsUndefined(Index(extraWhere, fields[i]))

sqb2_andWhere(fields) ==
    [i \in 1..Len(fields) |->
        [type |-> IF i > 1 THEN "and" ELSE "simple", cond |-> Leaf(fields[i], "=")]]

\* The clauses of the inner brackets: the first owner field by where, each
\* further one by orWhere.
sqb2(fields) ==
    [i \in 1..Len(fields) |->
        [type |-> IF i > 1 THEN "or" ELSE "simple", cond |-> Leaf(fields[i], "=")]]

sqb1_andPublished(extraWhere, fields) ==
    IF hasOwnerFields(extraWhere, fields)
    THEN <<[type |-> "simple", cond |-> Brackets(sqb2(fields))]>>
         \o (IF Truthy(Index(extraWhere, "isPublished"))
             THEN <<[type |-> "and", cond |-> Leaf("isPublished", "=")]>>
             ELSE <<>>)
    ELSE IF Truthy(Index(extraWhere, "isPublished"))
         THEN <<[type |-> "simple", cond |-> Leaf("isPublished", "=")]>>
         ELSE <<>>

\* The clauses of the outer brackets: the owner group, then isPublished by
\* orWhere; or isPublished alone; or nothing.
sqb1(extraWhere, fields) ==
    IF hasOwnerFields(extraWhere, fields)
    THEN <<[type |-> "simple", cond |-> Brackets(sqb2(fields))]>>
         \o (IF Truthy(Index(extraWhere, "isPublished"))
             THEN <<[type |-> "or", cond |-> Leaf("isPublished", "=")]>>
             ELSE <<>>)
    ELSE IF Truthy(Index(extraWhere, "isPublished"))
         THEN <<[type |-> "simple", cond |-> Leaf("isPublished", "=")]>>
         ELSE <<>>

\* builder.where(new Brackets(...)) when extraWhere is truthy: a group with
\* no clause adds nothing; every clause of the group binds the whole
\* extraWhere object as parameters.
AccessWheres(extraWhere, fields) ==
    IF Truthy(extraWhere) /\ Len(sqb1(extraWhere, fields)) > 0
    THEN <<[type |-> "simple", cond |-> Brackets(sqb1(extraWhere, fields))]>>
    ELSE <<>>

AccessParameters(extraWhere, fields) ==
    IF Truthy(extraWhere) /\ Len(sqb1(extraWhere, fields)) > 0
    THEN extraWhere.obj
    ELSE EmptyObject

ReservedKeys == {"limit", "page", "orderBy", "order", "offset"}

\* An order of the columns in which Object.keys lists the remaining keys
\* (the clauses are joined by AND, so the order changes no result).
KeyOrder == <<"id", "authorId", "moderatorId", "isPublished", "title">>

\* builder.andWhere for every key left in the query.
FilterWheres(rest) ==
    LET keys == SelectSeq(KeyOrder, LAMBDA k : k \in DOMAIN rest)
    IN [i \in 1..Len(keys) |->
           [type |-> "and",
            cond |-> Leaf(keys[i], IF IsArray(rest[keys[i]]) THEN "IN" ELSE "=")]]

Limit_unclamped(query) ==
    IF Truthy(Get(query, "limit")) THEN parseInt(Get(query, "limit")) ELSE Num(defaultLimit)

\* query.limit and query.page after lines 244-257.
Limit(query) ==
    IF Truthy(Get(query, "limit"))
    THEN LET queryLimit == parseInt(Get(query, "limit"))
         IN IF GreaterThan(queryLimit, maxLimit) THEN Num(maxLimit) ELSE queryLimit
    ELSE Num(defaultLimit)

Page(query) ==
    IF Truthy(Get(query, "limit"))
    THEN OrElse(Get(query, "page"), Num(0))
    ELSE Num(0)

Offset_pageOnly(query) == ToNumber(Times(Limit(query), Page(query)))

\* The argument of builder.skip, as skip normalises it to a number.
Offset(query) ==
    ToNumber(OrElse(Get(query, "offset"), Times(Limit(query), Page(query))))

OrderBys(query) ==
    IF Truthy(Get(query, "orderBy")) /\ Truthy(Get(query, "order"))
    THEN <<[sort |-> Get(query, "orderBy"), order |-> toUpperCase(Get(query, "order"))]>>
    ELSE <<>>

\* The builder getQueryBuilder returns, or what it throws. `created` tells
\* whether repository.createQueryBuilder was called. builder.take and
\* builder.skip throw when given a value that is not a number. Every
\* andWhere binds the whole remaining query as parameters, and a parameter
\* bound twice keeps the value bound last.
getQueryBuilder(user, permissions, fields, query, skipPermission) ==
    LET extraWhere == getWhereRestrictionsByPermissions(user, permissions, fields)
        rest == Delete(query, ReservedKeys)
    IN IF extraWhere = Bool(FALSE) /\ ~skipPermission
       THEN [thrown |-> "Unauthorized", created |-> FALSE]
       ELSE IF IsNaN(Limit(query)) \/ IsNaN(Offset(query))
       THEN [thrown |-> "Error", created |-> TRUE]
       ELSE [thrown |-> "none",
             created |-> TRUE,
             wheres |-> AccessWheres(extraWhere, fields) \o FilterWheres(rest),
             parameters |-> Assign(AccessParameters(extraWhere, fields), rest),
             orderBys |-> OrderBys(query),
             take |-> Limit(query).num,
             skip |-> Offset(query).num]

-----------------------------------------------------------------------------
\* Executing a builder against the rows of the repository.

\* The column a string value names.
ColumnNamed(v) == CHOOSE c \in Columns : ColumnChars[c] = v.str

\* The key rows are ordered by: the ORDER BY column (negated for DESC), the
\* primary key when the builder orders by nothing.
OrderKey(e, orderBys) ==
    IF Len(orderBys) = 0 THEN e.id.num
    ELSE LET k == DbNumber(Get(e, ColumnNamed(orderBys[1].sort)))
         IN IF orderBys[1].order = Str(<<"D", "E", "S", "C">>) THEN 0 - k ELSE k

Before(a, b, orderBys) ==
    \/ OrderKey(a, orderBys) < OrderKey(b, orderBys)
    \/ OrderKey(a, orderBys) = OrderKey(b, orderBys) /\ a.id.num < b.id.num

RECURSIVE Ordered(_, _)
Ordered(rows, orderBys) ==
    IF rows = {} THEN <<>>
    ELSE LET first == CHOOSE a \in rows : \A b \in rows \ {a} : Before(a, b, orderBys)
         IN <<first>> \o Ordered(rows \ {first}, orderBys)

Matching(builder, rows) ==
    {e \in rows : WheresHold(builder.wheres, e, builder.parameters)}

\* builder.getMany(): the matching rows in order, `skip` rows dropped, at most
\* `take` rows kept.
getMany(builder, rows) ==
    LET all == Ordered(Matching(builder, rows), builder.orderBys)
        from == builder.skip + 1
        to == IF builder.skip + builder.take < Len(all)
              THEN builder.skip + builder.take ELSE Len(all)
    IN SubSeq(all, from, to)

\* builder.getCount(): the number of matching rows, whatever take and skip.
getCount(builder, rows) == Cardinality(Matching(builder, rows))

-----------------------------------------------------------------------------
\* Requests.

UserIds == 1..MaxUser

\* A user: identifier and the answer of isAuthorized().
Users == [id : {Num(i) : i \in UserIds}, authorized : BOOLEAN]

\* The answers of checkPermissionGranted for ContentViewAll,
\* ContentViewUnpublished and ContentViewOwn.
Permissions == [viewAll : BOOLEAN, viewUnpublished : BOOLEAN, viewOwn : BOOLEAN]

Entity(id, authorId, moderatorId, isPublished, title) ==
    [id |-> id, authorId |-> authorId, moderatorId |-> moderatorId,
     isPublished |-> Bool(isPublished), title |-> Str(title)]

\* The object {k: v}, or {} when v is undefined.
KV(k, v) == IF IsUndefined(v) THEN EmptyObject ELSE (k :> v)

Alphabet == {"0", "1", "x"}

\* The strings over the alphabet of at most n characters.
Strings(n) == UNION {[1..k -> Alphabet] : k \in 0..n}

LimitValues == {Undefined} \cup {Str(s) : s \in Strings(MaxStrLen)}
PageValues == {Undefined, Str(<<"2">>), Str(<<"x">>)}
OffsetValues == {Undefined, Str(<<>>), Str(<<"0">>), Str(<<"7">>)}

\* Queries that page: limit, page and offset as the query string carries
\* them, every value a string.
PageQueries ==
    {KV("limit", l) @@ KV("page", p) @@ KV("offset", o) :
        l \in LimitValues, p \in PageValues, o \in OffsetValues}

IdStrings == {Str(<<DigitChar>>) : DigitChar \in {"1", "2"}}

\* Queries that filter and sort: keys named after columns, a repeated key
\* arriving as an array.
FilterQueries ==
    {KV("isPublished", pb) @@ KV("authorId", a) @@ KV("moderatorId", m)
        @@ KV("title", t) @@ KV("orderBy", ob) @@ KV("order", IF IsUndefined(ob) THEN Undefined ELSE Str(<<"d", "e", "s", "c">>)) :
        pb \in {Undefined, Str(<<"0">>), Str(<<"1">>)},
        a \in {Undefined} \cup IdStrings,
        m \in {Undefined, Str(<<"2">>)},
        t \in {Undefined, Str(<<"a">>), Arr(<<Str(<<"a">>), Str(<<"x">>)>>)},
        ob \in {Undefined, Str(<<"i", "d">>)}}

Idle == [op |-> "idle"]
NoResponse == [outcome |-> "pending"]

\* @User() user, @Query() query bound for GET '' and GET 'total'.
ReceiveQuery(op, users, queries) ==
    /\ req = Idle
    /\ \E user \in users, permissions \in Permissions, query \in queries :
          req' = [op |-> op, user |-> user, permissions |-> permissions, query |-> query]
    /\ UNCHANGED <<store, nextId, ownerFields, resp>>

\* What a handler answers from a builder that threw.
Thrown(builder) ==
    [outcome |-> builder.thrown, created |-> builder.created, executed |-> FALSE]

\* GET '': loadContentEntities.
loadContentEntities ==
    /\ req.op = "list"
    /\ resp = NoResponse
    /\ LET builder == getQueryBuilder(req.user, req.permissions, ownerFields, req.query, FALSE)
       IN resp' = IF builder.thrown # "none" THEN Thrown(builder)
                  ELSE [outcome |-> "ok", created |-> TRUE, executed |-> TRUE,
                        builder |-> builder,
                        query |-> Delete(req.query, ReservedKeys),
                        entities |-> getMany(builder, store)]
    /\ UNCHANGED <<store, nextId, ownerFields, req>>

\* GET 'total': countContentEntities.
countContentEntities ==
    /\ req.op = "count"
    /\ resp = NoResponse
    /\ LET builder == getQueryBuilder(req.user, req.permissions, ownerFields, req.query, FALSE)
       IN resp' = IF builder.thrown # "none" THEN Thrown(builder)
                  ELSE [outcome |-> "ok", created |-> TRUE, executed |-> TRUE,
                        builder |-> builder,
                        query |-> Delete(req.query, ReservedKeys),
                        total |-> getCount(builder, store)]
    /\ UNCHANGED <<store, nextId, ownerFields, req>>

\* The response leaves; the next request may be bound.
Reply ==
    /\ req # Idle
    /\ resp # NoResponse
    /\ req' = Idle
    /\ resp' = NoResponse
    /\ UNCHANGED <<store, nextId, ownerFields>>

-----------------------------------------------------------------------------
\* Create, update, delete, read one.

\* repository.save(entity): the row of that id is written, inserted when
\* the store holds none.
save(rows, entity) == {r \in rows : r.id # entity.id} \cup {entity}

\* What repository.save may do: write the row, or reject it with a
\* duplicate-key error or with any other error.
SaveResults == {"saved", "ER_DUP_ENTRY", "ER_OTHER"}

stampOwnership_keepSubmitted(entity, user) ==
    IF user.authorized
    THEN Put(Put(entity, "authorId", OrElse(Get(entity, "authorId"), user.id)),
             "moderatorId", OrElse(Get(entity, "moderatorId"), user.id))
    ELSE Put(Put(entity, "authorId", OrElse(Get(entity, "authorId"), Null)),
             "moderatorId", OrElse(Get(entity, "moderatorId"), Null))

\* createContentEntity, lines 66-72: authorId and moderatorId from the user.
stampOwnership(entity, user) ==
    IF user.authorized
    THEN Put(Put(entity, "authorId", user.id), "moderatorId", user.id)
    ELSE Put(Put(entity, "authorId", Null), "moderatorId", Null)

\* createContentEntity, lines 77-84: the exception thrown for a save error.
createError(code) ==
    IF code = "ER_DUP_ENTRY" THEN "Conflict" ELSE "UnprocessableEntity"

mergeUpdate_keepSubmittedAuthor(user, currentEntity, newEntity) ==
    Assign(currentEntity,
           Put(Put(newEntity, "id", currentEntity.id), "moderatorId", user.id))

\* updateContentEntity, lines 104-107: id and authorId forced from the
\* current entity, moderatorId from the user, then Object.assign onto the
\* current entity.
mergeUpdate(user, currentEntity, newEntity) ==
    Assign(currentEntity,
           Put(Put(Put(newEntity, "id", currentEntity.id),
                   "authorId", currentEntity.authorId),
               "moderatorId", user.id))

updateSaveFailed_rethrow(entity) ==
    [outcome |-> "UnprocessableEntity", save |-> "ER_OTHER", handed |-> entity]

\* updateContentEntity, lines 113-115: the error is logged and the handler
\* ends without returning a value.
updateSaveFailed(entity) ==
    [outcome |-> "ok", save |-> "ER_OTHER", handed |-> entity, returned |-> Undefined]

\* Bodies of POST '': the resource's own fields, with or without ownership
\* fields the client put in.
CreateBodies ==
    {[isPublished |-> Bool(FALSE), title |-> Str(<<"a">>)]
        @@ KV("authorId", a) @@ KV("moderatorId", m) :
        a \in {Undefined, Num(2)}, m \in {Undefined, Num(1)}}

\* Bodies of PUT ':id': any subset of the fields.
UpdateBodies ==
    {KV("id", i) @@ KV("authorId", a) @@ KV("moderatorId", m) @@ KV("title", t) :
        i \in {Undefined, Num(2)}, a \in {Undefined, Num(2)},
        m \in {Undefined, Num(1)}, t \in {Undefined, Str(<<"x">>)}}

\* @Body() entity, @User() user bound for POST ''. The store's key
\* generator is capped at MaxId rows.
ReceiveCreate ==
    /\ req = Idle
    /\ nextId <= MaxId
    /\ \E user \in Users, entity \in CreateBodies :
          req' = [op |-> "create", user |-> user, entity |-> entity]
    /\ UNCHANGED <<store, nextId, ownerFields, resp>>

\* POST '': createContentEntity.
createContentEntity ==
    /\ req.op = "create"
    /\ resp = NoResponse
    /\ \E result \in SaveResults :
          LET entity == stampOwnership(req.entity, req.user)
              saved == Put(entity, "id", Num(nextId))
          IN IF result = "saved"
             THEN /\ store' = save(store, saved)
                  /\ nextId' = nextId + 1
                  /\ resp' = [outcome |-> "ok", save |-> result,
                              handed |-> entity, returned |-> saved]
             ELSE /\ resp' = [outcome |-> createError(result), save |-> result,
                              handed |-> entity]
                  /\ UNCHANGED <<store, nextId>>
    /\ UNCHANGED <<ownerFields, req>>

\* @User() user, @ContentEntityParam() currentEntity, @Body() newEntity bound
\* for PUT ':id'; ContentEntityNotFoundGuard lets only a stored entity pass.
ReceiveUpdate ==
    /\ req = Idle
    /\ \E user \in Users, currentEntity \in store, newEntity \in UpdateBodies :
          req' = [op |-> "update", user |-> user,
                  currentEntity |-> currentEntity, newEntity |-> newEntity]
    /\ UNCHANGED <<store, nextId, ownerFields, resp>>

\* PUT ':id': updateContentEntity.
updateContentEntity ==
    /\ req.op = "update"
    /\ resp = NoResponse
    /\ \E result \in {"saved", "ER_OTHER"} :
          LET entity == mergeUpdate(req.user, req.currentEntity, req.newEntity)
          IN IF result = "saved"
             THEN /\ store' = save(store, entity)
                  /\ resp' = [outcome |-> "ok", save |-> result,
                              handed |-> entity, returned |-> entity]
             ELSE /\ resp' = updateSaveFailed(entity)
                  /\ UNCHANGED store
    /\ UNCHANGED <<nextId, ownerFields, req>>

\* @Param('id') id bound for DELETE ':id'; ContentEntityNotFoundGuard lets
\* only a stored entity's id pass.
ReceiveDelete ==
    /\ req = Idle
    /\ \E e \in store : req' = [op |-> "delete", id |-> e.id]
    /\ UNCHANGED <<store, nextId, ownerFields, resp>>

\* DELETE ':id': deleteContentEntity.
deleteContentEntity ==
    /\ req.op = "delete"
    /\ resp = NoResponse
    /\ LET entity == CHOOSE e \in store : e.id = req.id
       IN /\ store' = store \ {entity}
          /\ resp' = [outcome |-> "ok", returned |-> entity]
    /\ UNCHANGED <<nextId, ownerFields, req>>

\* @ContentEntityParam() entity bound for GET ':id'.
ReceiveRead ==
    /\ req = Idle
    /\ \E e \in store : req' = [op |-> "read", entity |-> e]
    /\ UNCHANGED <<store, nextId, ownerFields, resp>>

\* GET ':id': loadContentEntity.
loadContentEntity ==
    /\ req.op = "read"
    /\ resp = NoResponse
    /\ resp' = [outcome |-> "ok", returned |-> req.entity]
    /\ UNCHANGED <<store, nextId, ownerFields, req>>

-----------------------------------------------------------------------------
\* Specifications.

\* The controller over an empty repository: create, update, delete, read.
Init ==
    /\ store = {}
    /\ nextId = 1
    /\ ownerFields = <<"authorId">>
    /\ req = Idle
    /\ resp = NoResponse

Next ==
    \/ ReceiveCreate
    \/ createContentEntity
    \/ ReceiveUpdate
    \/ updateContentEntity
    \/ ReceiveDelete
    \/ deleteContentEntity
    \/ ReceiveRead
    \/ loadContentEntity
    \/ Reply

Spec == Init /\ [][Next]_vars

\* Rows a repository can hold after creates and updates by users 1 and 2 and
\* by anonymous users.
Rows ==
    {Entity(Num(1), Num(1), Num(1), FALSE, <<"a">>),
     Entity(Num(2), Num(1), Num(2), FALSE, <<"a">>),
     Entity(Num(3), Num(2), Num(2), TRUE, <<"x">>),
     Entity(Num(4), Num(2), Num(1), FALSE, <<"x">>),
     Entity(Num(5), Num(2), Num(2), FALSE, <<"a">>),
     Entity(Num(6), Null, Null, TRUE, <<"a">>),
     Entity(Num(7), Num(1), Num(1), TRUE, <<"x">>)}

\* getQueryBuilder reads the user's id and never isAuthorized().
Requesters == {u \in Users : u.authorized}

\* The ownerFields a controller's entity class declares.
OwnerFieldChoices == {<<"authorId">>, <<"authorId", "moderatorId">>}

InitQuery ==
    /\ store = Rows
    /\ nextId = 8
    /\ ownerFields \in OwnerFieldChoices
    /\ req = Idle
    /\ resp = NoResponse

\* List and count with queries that filter and sort.
NextQuery ==
    \/ ReceiveQuery("list", Requesters, FilterQueries)
    \/ ReceiveQuery("count", Requesters, FilterQueries)
    \/ loadContentEntities
    \/ countContentEntities
    \/ Reply

SpecQuery == InitQuery /\ [][NextQuery]_vars

\* List and count with queries that page; lines 244-264 read neither the
\* user nor a row, so one user asks.
NextPage ==
    \/ ReceiveQuery("list", {[id |-> Num(1), authorized |-> TRUE]}, PageQueries)
    \/ ReceiveQuery("count", {[id |-> Num(1), authorized |-> TRUE]}, PageQueries)
    \/ loadContentEntities
    \/ countContentEntities
    \/ Reply

SpecPage == InitQuery /\ [][NextPage]_vars

-----------------------------------------------------------------------------
\* Properties.

Answered(op) == req.op = op /\ resp # NoResponse

\* The entities a list request was answered with.
Returned == {resp.entities[i] : i \in 1..Len(resp.entities)}

\* The caller's query names no column: it filters nothing.
NoFilter == DOMAIN req.query \subseteq ReservedKeys

Published(e) == e.isPublished = Bool(TRUE)
OwnsSome(user, e) == \E f \in Range(ownerFields) : e[f] = user.id
OwnsEvery(user, e) == \A f \in Range(ownerFields) : e[f] = user.id

\* The access predicate of a user's permissions with the values the
\* permissions bind: the user's id for the owner fields, true for
\* isPublished.
AccessPredicate(user, permissions, e) ==
    LET extraWhere == getWhereRestrictionsByPermissions(user, permissions, ownerFields)
    IN /\ extraWhere # Bool(FALSE)
       /\ WheresHold(AccessWheres(extraWhere, ownerFields), e,
                     AccessParameters(extraWhere, ownerFields))

\* The rows a user sees with given permissions and no caller filter
\* (nothing when denied).
Visible(user, permissions) ==
    LET builder == getQueryBuilder(user, permissions, ownerFields, EmptyObject, FALSE)
    IN IF builder.thrown # "none" THEN {} ELSE Matching(builder, store)

\* C1: whatever the caller's query, every entity a list returns satisfies
\* the access predicate of the user's permissions bound to the user's id
\* and isPublished = true, and a count counts no more than those rows.
C1_QueryOnlyNarrows ==
    /\ (Answered("list") /\ resp.outcome = "ok") =>
          \A e \in Returned : AccessPredicate(req.user, req.permissions, e)
    /\ (Answered("count") /\ resp.outcome = "ok") =>
          resp.total <= Cardinality({e \in store :
                                       AccessPredicate(req.user, req.permissions, e)})

\* C2: with neither viewAll nor viewOwn, list and count fail with
\* Unauthorized before a query builder is created or a query executed; with
\* viewAll or viewOwn, Unauthorized is never raised.
C2_DeniedIsUnauthorized ==
    (Answered("list") \/ Answered("count")) =>
        IF ~req.permissions.viewAll /\ ~req.permissions.viewOwn
        THEN resp.outcome = "Unauthorized" /\ ~resp.created /\ ~resp.executed
        ELSE resp.outcome # "Unauthorized"

C2_Witness ==
    /\ Answered("list")
    /\ req.permissions = [viewAll |-> FALSE, viewUnpublished |-> TRUE, viewOwn |-> FALSE]
    /\ resp.outcome = "Unauthorized"
    /\ ~resp.created

ViewAllAndOwn ==
    /\ req.permissions.viewAll
    /\ req.permissions.viewOwn
    /\ ~req.permissions.viewUnpublished

\* C3 as stated: with viewAll and viewOwn and without viewUnpublished, the
\* rows a list shows are published rows whose every owner field is the
\* user's id.
C3_AsStated ==
    (Answered("list") /\ resp.outcome = "ok" /\ NoFilter /\ ViewAllAndOwn) =>
        \A e \in Returned : Published(e) /\ OwnsEvery(req.user, e)

\* C3: with viewAll and viewOwn and without viewUnpublished, the rows a list
\* with no caller filter shows are exactly the rows that are published or
\* have some owner field equal to the user's id: every row visible with
\* viewAll alone stays visible.
C3_PublishedOrOwned ==
    (Answered("list") /\ resp.outcome = "ok" /\ NoFilter /\ ViewAllAndOwn) =>
        /\ Returned = {e \in store : Published(e) \/ OwnsSome(req.user, e)}
        /\ {e \in store : Published(e)} \subseteq Returned

C3_Witness ==
    /\ Answered("list")
    /\ resp.outcome = "ok"
    /\ NoFilter
    /\ ViewAllAndOwn
    /\ \E e \in Returned : Published(e) /\ ~OwnsSome(req.user, e)
    /\ \E e \in Returned : ~Published(e) /\ OwnsSome(req.user, e)

ViewOwnOnly == req.permissions.viewOwn /\ ~req.permissions.viewAll

\* C4 as stated: with viewOwn only, every row a list shows has every owner
\* field equal to the user's id.
C4_AsStated ==
    (Answered("list") /\ resp.outcome = "ok" /\ NoFilter /\ ViewOwnOnly) =>
        \A e \in Returned : OwnsEvery(req.user, e)

\* C4: with viewOwn only, for any number of owner fields, the rows a list
\* with no caller filter shows are exactly the rows with at least one owner
\* field equal to the user's id, whatever their isPublished.
C4_OwnsSomeField ==
    (Answered("list") /\ resp.outcome = "ok" /\ NoFilter /\ ViewOwnOnly) =>
        Returned = {e \in store : OwnsSome(req.user, e)}

C4_Witness ==
    /\ Answered("list")
    /\ resp.outcome = "ok"
    /\ NoFilter
    /\ ViewOwnOnly
    /\ Len(ownerFields) = 2
    /\ \E e \in Returned : ~Published(e) /\ OwnsSome(req.user, e) /\ ~OwnsEvery(req.user, e)

\* A query string value that is a decimal numeral.
Numeral(v) == IsStr(v) /\ Len(v.str) > 0 /\ \A i \in 1..Len(v.str) : v.str[i] \in Digits

\* A key the caller gave a value: present and not the empty string.
Supplied(k) == k \in DOMAIN req.query /\ req.query[k] # Str(<<>>)

\* C5: the limit of an assembled query is at most 100: a caller limit above
\* 100 becomes 100, a caller limit of at most 100 is kept, and with no
\* caller limit the limit is 25 and the page 0, whatever page the caller
\* gave.
C5_LimitClamped ==
    ((Answered("list") \/ Answered("count")) /\ resp.outcome = "ok") =>
        /\ resp.builder.take <= maxLimit
        /\ (Supplied("limit") /\ Numeral(req.query["limit"])) =>
              LET n == DecimalValue(req.query["limit"].str)
              IN resp.builder.take = IF n > maxLimit THEN maxLimit ELSE n
        /\ ~Supplied("limit") =>
              /\ resp.builder.take = defaultLimit
              /\ ~Supplied("offset") => resp.builder.skip = 0

C5_Witness ==
    /\ Answered("list")
    /\ resp.outcome = "ok"
    /\ Get(req.query, "limit") = Str(<<"1", "0", "1">>)
    /\ resp.builder.take = maxLimit

\* C6: the offset of an assembled query is the caller's offset when the
\* caller gave one, 0 included, and otherwise the assembled limit times the
\* page, the page being 0 when the caller gave no page or no limit.
C6_OffsetOrLimitTimesPage ==
    ((Answered("list") \/ Answered("count")) /\ resp.outcome = "ok") =>
        IF Supplied("offset")
        THEN Numeral(req.query["offset"])
             /\ resp.builder.skip = DecimalValue(req.query["offset"].str)
        ELSE resp.builder.skip =
                resp.builder.take *
                    (IF Supplied("limit") /\ Supplied("page")
                     THEN DecimalValue(req.query["page"].str) ELSE 0)

C6_Witness ==
    /\ Answered("list")
    /\ resp.outcome = "ok"
    /\ req.query = [limit |-> Str(<<"1", "0">>), page |-> Str(<<"2">>), offset |-> Str(<<"0">>)]
    /\ resp.builder.take = 10
    /\ resp.builder.skip = 0

Ids(rows) == {r.id : r \in rows}

\* C7: the entity an update persists has the current entity's id and
\* authorId whatever the body holds, the acting user's id as moderatorId,
\* and for every other field the submitted value if one was submitted and
\* the current value otherwise; no update changes the id or the authorId of
\* a stored entity.
C7_UpdatePreservesIdentity ==
    /\ [](Answered("update") =>
            /\ resp.handed.id = req.currentEntity.id
            /\ resp.handed.authorId = req.currentEntity.authorId
            /\ resp.handed.moderatorId = req.user.id
            /\ \A k \in Columns \ {"id", "authorId", "moderatorId"} :
                  resp.handed[k] = IF k \in DOMAIN req.newEntity
                                   THEN req.newEntity[k] ELSE req.currentEntity[k]
            /\ resp.save = "saved" => resp.handed \in store)
    /\ [][updateContentEntity =>
            /\ Ids(store') = Ids(store)
            /\ \A e \in store, f \in store' :
                  f.id = e.id => f.authorId = e.authorId]_vars

C7_Witness ==
    /\ Answered("update")
    /\ resp.save = "saved"
    /\ req.newEntity = [id |-> Num(2), authorId |-> Num(2), moderatorId |-> Num(1),
                        title |-> Str(<<"x">>)]
    /\ req.currentEntity.authorId = Num(1)
    /\ req.user.id = Num(2)
    /\ resp.handed \in store
    /\ resp.handed.title = Str(<<"x">>)

\* C8: the entity a create hands to the store has authorId and moderatorId
\* equal to the user's id when the user is authorized and null when not,
\* whatever the body carried in those fields.
C8_CreateStampsOwnership ==
    Answered("create") =>
        LET owner == IF req.user.authorized THEN req.user.id ELSE Null
        IN /\ resp.handed.authorId = owner
           /\ resp.handed.moderatorId = owner
           /\ resp.save = "saved" =>
                 /\ resp.returned \in store
                 /\ resp.returned.authorId = owner
                 /\ resp.returned.moderatorId = owner

C8_Witness ==
    /\ Answered("create")
    /\ ~req.user.authorized
    /\ Get(req.entity, "authorId") = Num(2)
    /\ Get(req.entity, "moderatorId") = Num(1)
    /\ resp.save = "saved"
    /\ resp.returned.authorId = Null

\* C9: when the store fails to save an update, the handler raises no error
\* and returns no entity, and the stored entity keeps its values; when the
\* store fails to save a create, the handler raises Conflict for a
\* duplicate key and UnprocessableEntity for any other failure.
C9_SaveFailures ==
    /\ (Answered("update") /\ resp.save # "saved") =>
          /\ resp.outcome = "ok"
          /\ resp.returned = Undefined
          /\ req.currentEntity \in store
    /\ (Answered("create") /\ resp.save = "ER_DUP_ENTRY") => resp.outcome = "Conflict"
    /\ (Answered("create") /\ resp.save = "ER_OTHER") =>
          resp.outcome = "UnprocessableEntity"

C9_Witness ==
    /\ Answered("update")
    /\ resp.save = "ER_OTHER"
    /\ resp.outcome = "ok"
    /\ req.newEntity = [title |-> Str(<<"x">>)]
    /\ req.currentEntity.title = Str(<<"a">>)
    /\ req.currentEntity \in store

\* Q grants every permission P grants.
GrantsAtLeast(Q, P) ==
    /\ P.viewAll => Q.viewAll
    /\ P.viewUnpublished => Q.viewUnpublished
    /\ P.viewOwn => Q.viewOwn

\* C10: the rows a user is shown with given permissions stay visible under
\* every set of permissions that grants at least as much.
C10_VisibilityMonotone ==
    /\ (Answered("list") /\ resp.outcome = "ok" /\ NoFilter) =>
          \A Q \in Permissions :
              GrantsAtLeast(Q, req.permissions) => Returned \subseteq Visible(req.user, Q)
    /\ (Answered("list") /\ resp.outcome = "Unauthorized") =>
          Visible(req.user, req.permissions) = {}

C10_Witness ==
    /\ Answered("list")
    /\ resp.outcome = "ok"
    /\ NoFilter
    /\ req.permissions = [viewAll |-> TRUE, viewUnpublished |-> FALSE, viewOwn |-> FALSE]
    /\ \E e \in Returned :
          /\ ~OwnsSome(req.user, e)
          /\ e \in Visible(req.user, [viewAll |-> TRUE, viewUnpublished |-> FALSE,
                                      viewOwn |-> TRUE])

====
